---- MODULE Spec2Model ----
(***************************************************************************)
(* showdeps: dependency listing of Go packages (src/showdeps.go).          *)
(* Strings are sequences of one-character strings, so that isStdlib,      *)
(* matchPattern, sort.Strings and uniq are computed on the characters.     *)
(***************************************************************************)
EXTENDS Naturals, Sequences, FiniteSets

VARIABLES
    noTestDeps,     \* flag -T
    all,            \* flag -a
    std,            \* flag -stdlib
    from,           \* flag -from
    why,            \* flag -why (a string)
    files,          \* flag -f
    pkgs,           \* the package arguments after gotool.ImportPaths
    edges,          \* what the resolver knows: <<package, imported path, kind>>
    rootPkgs,       \* main: rootPkgs, as the set of its keys
    allPkgs,        \* main: allPkgs, path -> sequence of importers
    pending,        \* arguments the loop of main has not passed to findImports
    stack,          \* the active findImports calls, innermost last
    output,         \* the lines written to stdout
    pc,             \* position of main
    built,          \* history: allPkgs as the build loop left it
    calls,          \* history: number of findImports calls per path
    resolveFailed,  \* history: a build.Default.Import call returned an error
    name,           \* argument of the matcher built by matchPattern(why)
    matched         \* its result

vars == <<noTestDeps, all, std, from, why, files, pkgs, edges, rootPkgs, allPkgs,
          pending, stack, output, pc, built, calls, resolveFailed, name, matched>>

---------------------------------------------------------------------------
(* Bounds of the model. *)

MaxEdges == 2       \* import entries over all resolvable packages
MaxRoots == 2       \* package arguments
MaxDepth == 6       \* nested findImports calls the model follows
MaxPatLen == 7      \* length of an enumerated pattern
MaxNameLen == 4     \* length of an enumerated name

---------------------------------------------------------------------------
(* Strings. *)

\* byte value of the characters the model uses
Ord(c) ==
    CASE c = "\n" -> 10 [] c = " " -> 32 [] c = "$" -> 36 [] c = "(" -> 40
      [] c = ")" -> 41 [] c = "*" -> 42 [] c = "+" -> 43 [] c = "." -> 46
      [] c = "/" -> 47 [] c = "?" -> 63 [] c = "C" -> 67 [] c = "[" -> 91
      [] c = "\\" -> 92 [] c = "]" -> 93 [] c = "^" -> 94 [] c = "a" -> 97
      [] c = "b" -> 98 [] c = "f" -> 102 [] c = "g" -> 103 [] c = "m" -> 109
      [] c = "o" -> 111 [] c = "r" -> 114 [] c = "s" -> 115 [] c = "t" -> 116
      [] c = "x" -> 120 [] c = "y" -> 121 [] c = "z" -> 122 [] c = "{" -> 123
      [] c = "|" -> 124 [] c = "}" -> 125

RECURSIVE StrLess(_, _)
\* s < t for Go strings: bytewise lexicographic
StrLess(s, t) ==
    IF t = <<>> THEN FALSE
    ELSE IF s = <<>> THEN TRUE
    ELSE IF Head(s) = Head(t) THEN StrLess(Tail(s), Tail(t))
    ELSE Ord(Head(s)) < Ord(Head(t))

\* s[i:j] of Go, 0-based, j exclusive
Slice(s, i, j) == SubSeq(s, i + 1, j)

HasPrefixAt(s, i, p) ==
    /\ i + Len(p) <= Len(s)
    /\ Slice(s, i, i + Len(p)) = p

\* strings.HasSuffix
HasSuffix(s, suffix) ==
    /\ Len(s) >= Len(suffix)
    /\ Slice(s, Len(s) - Len(suffix), Len(s)) = suffix

\* strings.Contains
Contains(s, sub) == \E i \in 0..Len(s) : HasPrefixAt(s, i, sub)

RECURSIVE ReplaceFrom(_, _, _, _)
ReplaceFrom(s, i, old, new) ==
    IF i >= Len(s) THEN <<>>
    ELSE IF HasPrefixAt(s, i, old) THEN new \o ReplaceFrom(s, i + Len(old), old, new)
    ELSE <<s[i + 1]>> \o ReplaceFrom(s, i + 1, old, new)

\* strings.Replace(s, old, new, -1) for a non-empty old: the non-overlapping
\* occurrences, leftmost first
Replace(s, old, new) == ReplaceFrom(s, 0, old, new)

RECURSIVE FirstSegment(_)
\* strings.SplitN(pkg, "/", 2)[0]
FirstSegment(s) ==
    IF s = <<>> \/ Head(s) = "/" THEN <<>>
    ELSE <<Head(s)>> \o FirstSegment(Tail(s))

RECURSIVE Join(_, _)
\* strings.Join
Join(ss, sep) ==
    IF ss = <<>> THEN <<>>
    ELSE IF Len(ss) = 1 THEN ss[1]
    ELSE ss[1] \o sep \o Join(Tail(ss), sep)

RECURSIVE Insert(_, _)
Insert(sorted, s) ==
    IF sorted = <<>> THEN <<s>>
    ELSE IF StrLess(s, Head(sorted)) THEN <<s>> \o sorted
    ELSE <<Head(sorted)>> \o Insert(Tail(sorted), s)

\* no sorting at all
sortNone(ss) == ss

RECURSIVE SortStrings(_)
\* sort.Strings
SortStrings(ss) ==
    IF ss = <<>> THEN <<>> ELSE Insert(SortStrings(Tail(ss)), Head(ss))

RECURSIVE UniqFrom(_, _)
UniqFrom(ss, prev) ==
    IF ss = <<>> THEN <<>>
    ELSE IF Head(ss) # prev THEN <<Head(ss)>> \o UniqFrom(Tail(ss), Head(ss))
    ELSE UniqFrom(Tail(ss), prev)

\* uniq: drops an element equal to the one kept before it; prev starts as ""
uniq(ss) == UniqFrom(ss, <<>>)

---------------------------------------------------------------------------
(* isStdlib and matchPattern. *)

\* isStdlib without its negation
isStdlibNegated(pkg) == Contains(FirstSegment(pkg), <<".">>)

isStdlib(pkg) == ~Contains(FirstSegment(pkg), <<".">>)

\* the characters regexp.QuoteMeta escapes
Special == {"\\", ".", "+", "*", "?", "(", ")", "|", "[", "]", "{", "}", "^", "$"}

RECURSIVE QuoteMeta(_)
QuoteMeta(s) ==
    IF s = <<>> THEN <<>>
    ELSE (IF Head(s) \in Special THEN <<"\\", Head(s)>> ELSE <<Head(s)>>)
            \o QuoteMeta(Tail(s))

EscDots == <<"\\", ".", "\\", ".", "\\", ".">>
DotStar == <<".", "*">>
SlashDotStar == <<"/", ".", "*">>
OptSlashDotStar == <<"(", "/", ".", "*", ")", "?">>

\* the expression without the special case for a trailing /...
PatternRegexpPlain(pattern) == Replace(QuoteMeta(pattern), EscDots, DotStar)

\* the expression matchPattern compiles, without the anchors
PatternRegexp(pattern) ==
    LET re == Replace(QuoteMeta(pattern), EscDots, DotStar)
    IN  IF HasSuffix(re, SlashDotStar)
        THEN Slice(re, 0, Len(re) - Len(SlashDotStar)) \o OptSlashDotStar
        ELSE re

\* index of the ")" closing the group opened before position i (1-based)
RECURSIVE GroupEnd(_, _)
GroupEnd(re, i) ==
    IF i > Len(re) THEN i
    ELSE IF re[i] = "\\" THEN GroupEnd(re, i + 2)
    ELSE IF re[i] = ")" THEN i
    ELSE GroupEnd(re, i + 1)

RECURSIVE ReMatch(_, _)
\* regexp: re, anchored at both ends, matches s.  The syntax is the part the
\* compiled patterns use: \c, c, ".", x* for a one-character x, and (...)?
ReMatch(re, s) ==
    IF re = <<>> THEN s = <<>>
    ELSE IF re[1] = "("
    THEN LET e == GroupEnd(re, 2)
             inner == SubSeq(re, 2, e - 1)
             opt == e < Len(re) /\ re[e + 1] = "?"
             rest == SubSeq(re, IF opt THEN e + 2 ELSE e + 1, Len(re))
         IN  \/ ReMatch(inner \o rest, s)
             \/ opt /\ ReMatch(rest, s)
    ELSE LET n == IF re[1] = "\\" THEN 2 ELSE 1
             lit == re[n]
             any == n = 1 /\ re[1] = "."
             one(c) == IF any THEN c # "\n" ELSE c = lit
             star == Len(re) > n /\ re[n + 1] = "*"
             rest == SubSeq(re, IF star THEN n + 2 ELSE n + 1, Len(re))
         IN  IF star
             THEN \E k \in 0..Len(s) :
                     /\ \A j \in 1..k : one(s[j])
                     /\ ReMatch(rest, SubSeq(s, k + 1, Len(s)))
             ELSE s # <<>> /\ one(s[1]) /\ ReMatch(rest, Tail(s))

\* matchPattern(pattern)(s)
matchPattern(pattern, s) == ReMatch(PatternRegexp(pattern), s)

---------------------------------------------------------------------------
(* The packages the resolver (go/build) knows. *)

PkgA == <<"a", ".", "x">>
PkgB == <<"b", ".", "x">>
PkgS == <<"s">>                     \* a path without a dot: standard library
CgoPath == <<"C">>                  \* the pseudo-package of cgo
Missing == <<"m", ".", "x">>        \* a path no directory exists for
Dot == <<".">>                      \* the current directory

Modules == {PkgA, PkgB, PkgS}
Paths == Modules \cup {CgoPath, Missing}
Kinds == {"Imports", "TestImports", "XTestImports"}
\* an import entry a package on disk can have; test files import no "C" (cgo is
\* not allowed in them) and, here, only packages that exist
Slots == (Modules \X Paths \X {"Imports"})
            \cup (Modules \X Modules \X {"TestImports", "XTestImports"})

\* the package in the current directory
CwdPackage == PkgA

\* build.Default.Import(path, cwd, mode) returns no error
Resolvable(path) == path \in Modules \cup {Dot}

\* pkg.ImportPath of the package build.Default.Import(path, cwd, mode) returns
ImportPath(path) == IF path = Dot THEN CwdPackage ELSE path

\* pkg.Imports, pkg.TestImports, pkg.XTestImports
Imports(p) == {e[2] : e \in {e \in edges : e[1] = p /\ e[3] = "Imports"}}
TestImports(p) == {e[2] : e \in {e \in edges : e[1] = p /\ e[3] = "TestImports"}}
XTestImports(p) == {e[2] : e \in {e \in edges : e[1] = p /\ e[3] = "XTestImports"}}

\* pkg.Dir and the file lists of a resolved package
Dir(p) == <<"/">> \o p
GoFiles(p) == IF p \in Modules THEN << <<"g">> >> ELSE <<>>
CgoFiles(p) == IF p \in Modules /\ CgoPath \in Imports(p) THEN << <<"c">> >> ELSE <<>>
TestGoFiles(p) == IF p \in Modules THEN << <<"t">> >> ELSE <<>>
XTestGoFiles(p) == IF p \in Modules /\ XTestImports(p) # {} THEN << <<"y">> >> ELSE <<>>

---------------------------------------------------------------------------
(* findImports and its helpers. *)

\* addPackages(m, ss)
addPackages(m, ss) == m \cup {s \in ss : std \/ ~isStdlib(s)}

\* imports without the test imports of a root
importsNoTests(p, isRoot) == addPackages({}, Imports(p))

\* imports with the test imports of every package
importsAllTests(p, isRoot) ==
    addPackages(addPackages(addPackages({}, Imports(p)), TestImports(p)),
                XTestImports(p))

\* imports(pkg, isRoot), as the set of the keys of the map it returns
imports(p, isRoot) ==
    LET imps == addPackages({}, Imports(p))
    IN  IF isRoot /\ ~noTestDeps
        THEN addPackages(addPackages(imps, TestImports(p)), XTestImports(p))
        ELSE imps

\* allPkgs[p] of Go: the nil slice for a missing key
Importers(ap, p) == IF p \in DOMAIN ap THEN ap[p] ELSE <<>>

\* allPkgs[p] = v
MapSet(ap, p, v) == [q \in DOMAIN ap \cup {p} |-> IF q = p THEN v ELSE ap[q]]

\* delete(allPkgs, p) for every p of S
MapDelete(ap, S) == [q \in DOMAIN ap \ S |-> ap[q]]

\* a guard that never holds: every import is entered
neverDone(ap, n) == FALSE

\* alreadyDone := allPkgs[name] != nil
alreadyDone(ap, n) == Importers(ap, n) # <<>>

\* the start of findImports(packageName, ...) up to its loop: the call returns at
\* once for "C", fails when the package is not found, and otherwise gives the
\* package an entry and starts the loop over its imports
Enter(packageName, ap, st) ==
    IF packageName = CgoPath
    THEN [allPkgs |-> ap, stack |-> st, err |-> FALSE]
    ELSE IF ~Resolvable(packageName)
    THEN [allPkgs |-> ap, stack |-> st, err |-> TRUE]
    ELSE LET p == ImportPath(packageName)
         IN  [allPkgs |-> MapSet(ap, p, Importers(ap, p)),
              stack |-> Append(st, [pkg |-> p, todo |-> imports(p, p \in rootPkgs)]),
              err |-> FALSE]

Called(c, packageName) == [c EXCEPT ![packageName] = @ + 1]

---------------------------------------------------------------------------
(* markImporters. *)

RECURSIVE markImporters(_, _, _)
RECURSIVE markEach(_, _, _)
\* markImporters(pkg, allPkgs, marked), returning marked
markImporters(p, ap, marked) ==
    IF p \in marked THEN marked
    ELSE markEach(Importers(ap, p), ap, marked \cup {p})

\* its loop over allPkgs[pkg]
markEach(imps, ap, marked) ==
    IF imps = <<>> THEN marked
    ELSE markEach(Tail(imps), ap, markImporters(Head(imps), ap, marked))

RECURSIVE MarkKeys(_, _, _)
\* the loop of main that marks from every key whyMatch accepts, keys in order
MarkKeys(keys, ap, marked) ==
    IF keys = <<>> THEN marked
    ELSE MarkKeys(Tail(keys), ap,
                  IF matchPattern(why, Head(keys))
                  THEN markImporters(Head(keys), ap, marked)
                  ELSE marked)

\* the orders a range over a map with these keys can take
Orders(S) == {o \in [1..Cardinality(S) -> S] : \A i, j \in DOMAIN o : i # j => o[i] # o[j]}

---------------------------------------------------------------------------
(* Rendering. *)

\* what sort.Strings and uniq leave in the slice the map still holds
uniqInPlace(ss) == uniq(ss) \o SubSeq(ss, Len(uniq(ss)) + 1, Len(ss))

RECURSIVE showFiles(_, _)
\* showFiles(w, pkg, fs): the lines it prints
showFiles(p, fs) ==
    IF fs = <<>> THEN <<>>
    ELSE <<Dir(p) \o <<"/">> \o Head(fs)>> \o showFiles(p, Tail(fs))

\* the lines one iteration of the output loop prints for r
Lines(r, ap) ==
    IF files
    THEN LET p == ImportPath(r)
         IN  showFiles(p, GoFiles(p)) \o showFiles(p, CgoFiles(p))
               \o (IF p \in rootPkgs /\ ~noTestDeps
                   THEN showFiles(p, TestGoFiles(p)) \o showFiles(p, XTestGoFiles(p))
                   ELSE <<>>)
    ELSE IF from
    THEN <<r \o <<" ">> \o Join(uniq(SortStrings(ap[r])), <<" ">>)>>
    ELSE <<r>>

RECURSIVE RenderAll(_, _)
RenderAll(result, ap) ==
    IF result = <<>> THEN <<>>
    ELSE Lines(Head(result), ap) \o RenderAll(Tail(result), ap)

---------------------------------------------------------------------------
(* The inputs. *)

RECURSIVE UpTo(_, _)
\* the subsets of S with at most k elements
UpTo(S, k) ==
    IF k = 0 THEN {{}}
    ELSE LET prev == UpTo(S, k - 1)
         IN  prev \cup {e \cup {x} : e \in prev, x \in S}

EdgeSets == UpTo(Slots, MaxEdges)
RootSets == UpTo(Modules \cup {Missing}, MaxRoots)
WhyPatterns == {<<>>, PkgS, <<"b", ".", ".", ".">>}

Idle ==
    /\ rootPkgs = {}
    /\ allPkgs = <<>>
    /\ pending = {}
    /\ stack = <<>>
    /\ output = <<>>
    /\ built = <<>>
    /\ calls = [p \in Paths \cup {Dot} |-> 0]
    /\ resolveFailed = FALSE
    /\ matched = FALSE

\* the arguments and the packages on disk
Inputs ==
    /\ pkgs \in RootSets
    /\ edges \in EdgeSets
    /\ name = <<>>
    /\ pc = "start"
    /\ Idle

\* the state after flag.Parse
Init ==
    /\ noTestDeps \in BOOLEAN
    /\ all \in BOOLEAN
    /\ std \in BOOLEAN
    /\ from \in BOOLEAN
    /\ files \in BOOLEAN
    /\ why \in WhyPatterns
    /\ Inputs

\* list mode: no -from, no -why, no -f
InitList ==
    /\ noTestDeps \in BOOLEAN
    /\ all \in BOOLEAN
    /\ std \in BOOLEAN
    /\ from = FALSE
    /\ files = FALSE
    /\ why = <<>>
    /\ Inputs

\* list mode with -a
InitRecursive ==
    /\ noTestDeps \in BOOLEAN
    /\ all = TRUE
    /\ std \in BOOLEAN
    /\ from = FALSE
    /\ files = FALSE
    /\ why = <<>>
    /\ Inputs

\* every mode but -f: list or -from, with or without -a, or -why; test imports
\* are on (with -T a package is handled as one without test imports is)
InitShow ==
    /\ why \in WhyPatterns
    /\ noTestDeps = FALSE
    /\ all \in (IF why = <<>> THEN BOOLEAN ELSE {FALSE})
    /\ std \in BOOLEAN
    /\ from \in (IF why = <<>> THEN BOOLEAN ELSE {FALSE})
    /\ files = FALSE
    /\ Inputs

\* -why without -f, over packages with one more import entry
InitWhy ==
    /\ noTestDeps \in BOOLEAN
    /\ all = FALSE
    /\ std \in BOOLEAN
    /\ from = FALSE
    /\ files = FALSE
    /\ why \in WhyPatterns \ {<<>>}
    /\ pkgs \in RootSets
    /\ edges \in UpTo(Slots, MaxEdges + 1)
    /\ name = <<>>
    /\ pc = "start"
    /\ Idle

---------------------------------------------------------------------------
(* main. *)

\* main up to the end of the loop that fills rootPkgs
Setup ==
    /\ pc = "start"
    /\ LET args == IF pkgs = {} THEN {Dot} ELSE pkgs
       IN  /\ pkgs' = args
           /\ all' = (all \/ why # <<>>)
           /\ from' = (from \/ why # <<>>)
           /\ std' = (std \/ (why # <<>> /\ isStdlib(why)))
           /\ IF \A a \in args : Resolvable(a)
              THEN /\ rootPkgs' = {ImportPath(a) : a \in args}
                   /\ pending' = args
                   /\ pc' = "build"
                   /\ UNCHANGED resolveFailed
              ELSE /\ resolveFailed' = TRUE
                   /\ pc' = "fatal"
                   /\ UNCHANGED <<rootPkgs, pending>>
    /\ UNCHANGED <<noTestDeps, why, files, edges, allPkgs, stack, output, built,
                   calls, name, matched>>

\* one iteration of the loop of main over pkgs: the call of findImports
CallRoot ==
    /\ pc = "build"
    /\ stack = <<>>
    /\ \E a \in pending :
          LET r == Enter(a, allPkgs, stack)
          IN  /\ pending' = pending \ {a}
              /\ calls' = Called(calls, a)
              /\ allPkgs' = r.allPkgs
              /\ stack' = r.stack
              /\ resolveFailed' = (resolveFailed \/ r.err)
              /\ pc' = IF r.err THEN "fatal" ELSE "build"
    /\ UNCHANGED <<noTestDeps, all, std, from, why, files, pkgs, edges, rootPkgs,
                   output, built, name, matched>>

\* one iteration of the loop of findImports, with the start of the call it makes
LoopStep ==
    /\ pc = "build"
    /\ stack # <<>>
    /\ LET top == stack[Len(stack)]
       IN  \E n \in top.todo :
              LET st == [stack EXCEPT ![Len(stack)].todo = @ \ {n}]
                  skip == ~std /\ isStdlib(n)
                  done == alreadyDone(allPkgs, n)
                  ap == MapSet(allPkgs, n, Append(Importers(allPkgs, n), top.pkg))
                  recurse == ~skip /\ all /\ ~done
                  r == Enter(n, ap, st)
              IN  /\ recurse => Len(stack) < MaxDepth
                  /\ allPkgs' = IF skip THEN allPkgs ELSE IF recurse THEN r.allPkgs ELSE ap
                  /\ stack' = IF recurse THEN r.stack ELSE st
                  /\ calls' = IF recurse THEN Called(calls, n) ELSE calls
                  /\ resolveFailed' = (resolveFailed \/ (recurse /\ r.err))
                  /\ pc' = IF recurse /\ r.err THEN "fatal" ELSE "build"
    /\ UNCHANGED <<noTestDeps, all, std, from, why, files, pkgs, edges, rootPkgs,
                   pending, output, built, name, matched>>

\* findImports returns nil after its loop
Return ==
    /\ pc = "build"
    /\ stack # <<>>
    /\ stack[Len(stack)].todo = {}
    /\ stack' = SubSeq(stack, 1, Len(stack) - 1)
    /\ UNCHANGED <<noTestDeps, all, std, from, why, files, pkgs, edges, rootPkgs,
                   allPkgs, pending, output, pc, built, calls, resolveFailed, name,
                   matched>>

\* the deletions of main without the deletion of the roots
FilteredKeepRoots(ap, order) ==
    IF files \/ why = <<>> THEN ap
    ELSE MapDelete(ap, DOMAIN ap \ MarkKeys(order, ap, {}))

\* allPkgs after the roots and, under -why, the unmarked packages are deleted;
\* order is the order the marking loop ranges over the keys in
Filtered(ap, order) ==
    IF files THEN ap
    ELSE LET noRoots == MapDelete(ap, rootPkgs)
         IN  IF why = <<>> THEN noRoots
             ELSE LET marked == MarkKeys(order, noRoots, {})
                  IN  MapDelete(noRoots, DOMAIN noRoots \ marked)

\* main from the end of the build loop to the end of the deletions
Filter ==
    /\ pc = "build"
    /\ stack = <<>>
    /\ pending = {}
    /\ built' = allPkgs
    /\ \E order \in Orders(DOMAIN allPkgs \ rootPkgs) :
          allPkgs' = Filtered(allPkgs, order)
    /\ pc' = "render"
    /\ UNCHANGED <<noTestDeps, all, std, from, why, files, pkgs, edges, rootPkgs,
                   pending, stack, output, calls, resolveFailed, name, matched>>

\* the output loop of main
Render ==
    /\ pc = "render"
    /\ \E order \in Orders(DOMAIN allPkgs) :
          output' = RenderAll(SortStrings(order), allPkgs)
    /\ allPkgs' = IF ~files /\ from
                  THEN [p \in DOMAIN allPkgs |-> uniqInPlace(SortStrings(allPkgs[p]))]
                  ELSE allPkgs
    /\ resolveFailed' =
          (resolveFailed \/ (files /\ \E p \in DOMAIN allPkgs : ~Resolvable(p)))
    /\ pc' = "done"
    /\ UNCHANGED <<noTestDeps, all, std, from, why, files, pkgs, edges, rootPkgs,
                   pending, stack, built, calls, name, matched>>

Next == Setup \/ CallRoot \/ LoopStep \/ Return \/ Filter \/ Render

Spec == Init /\ [][Next]_vars

SpecList == InitList /\ [][Next]_vars

SpecRecursive == InitRecursive /\ [][Next]_vars

SpecShow == InitShow /\ [][Next]_vars

SpecWhy == InitWhy /\ [][Next]_vars

---------------------------------------------------------------------------
(* What the claims speak of. *)

\* the package paths the lines of the output start with
RECURSIVE LineKey(_)
LineKey(line) ==
    IF line = <<>> \/ Head(line) = " " THEN <<>>
    ELSE <<Head(line)>> \o LineKey(Tail(line))

Rendered == {LineKey(output[i]) : i \in DOMAIN output}

\* classified as standard library: no dot before the first slash
StdClass(p) == \A i \in DOMAIN p : p[i] = "." => \E j \in 1..(i - 1) : p[j] = "/"

\* removed by the standard-library filter
Removed(p) == ~std /\ StdClass(p)

TestDepsOf(p) ==
    IF p \in rootPkgs /\ ~noTestDeps THEN TestImports(p) \cup XTestImports(p) ELSE {}

\* the effective imports of a package
Effective(p) == Imports(p) \cup TestDepsOf(p)

RECURSIVE Closure(_, _, _)
\* the paths reached from the packages of todo by the edges Step(p), todo included
Closure(Step(_), todo, seen) ==
    IF todo \subseteq seen THEN seen
    ELSE LET new == todo \ seen
         IN  Closure(Step, UNION {Step(p) : p \in new}, seen \cup new)

\* reachable from a root by one or more effective-import edges
Reachable == Closure(Effective, UNION {Effective(r) : r \in rootPkgs}, {})

\* the same, over the edges the filter keeps
Kept(p) == {d \in Effective(p) : ~Removed(d)}
KeptReachable == Closure(Kept, UNION {Kept(r) : r \in rootPkgs}, {})

RootImports == UNION {Effective(r) : r \in rootPkgs}

ListDone == pc = "done" /\ ~files /\ ~from /\ why = <<>>

\* C1 as stated: in list mode without -why the output is the set of the effective
\* imports of the roots or, with -a, of the paths reachable from a root over
\* effective-import edges, without the roots and without the paths the
\* standard-library filter removes (stated for packages whose imports all exist).
C1_AsStated ==
    (ListDone /\ \A e \in edges : e[2] # Missing) =>
        Rendered = {p \in (IF all THEN Reachable ELSE RootImports) :
                       p \notin rootPkgs /\ ~Removed(p)}

\* C1 amended: with -a the output is the set of the paths reachable from a root
\* over effective-import edges that do not enter a path the filter removes (a
\* removed path is not traversed), without the roots; without -a it is the set of
\* the effective imports of the roots the filter keeps, without the roots.
C1_ListOutput ==
    ListDone =>
        Rendered = {p \in (IF all THEN KeptReachable ELSE RootImports) :
                       p \notin rootPkgs /\ ~Removed(p)}

\* a recursive listing with test imports of a root, two levels deep, one line
\* per path
C1_Witness ==
    /\ ListDone
    /\ all
    /\ \E r \in rootPkgs : TestDepsOf(r) \ Imports(r) # {}
    /\ Rendered \ RootImports # {}
    /\ Len(output) = Cardinality(Rendered)

\* the imports the build found: d is a key and p one of its importers
BuiltImports(p) == {d \in DOMAIN built : \E i \in DOMAIN built[d] : built[d][i] = p}

\* what p imports, directly or transitively, over these edges
TransImports(p) == Closure(BuiltImports, BuiltImports(p), {})

\* C2 as stated: under -why without -f, a discovered package that is no root is
\* printed exactly if it matches the pattern or imports, directly or transitively
\* over the imports the build found (through roots too), a discovered package
\* that matches; the matching package is taken among the packages that are no
\* roots, the reading under which fewer packages must be printed, and the claim
\* is stated for packages whose direct imports form no cycle.
C2_AsStated ==
    (/\ pc = "done" /\ why # <<>> /\ ~files
     /\ \A p \in Modules : p \notin Closure(Imports, Imports(p), {})) =>
        Rendered = {m \in DOMAIN built \ rootPkgs :
                       \/ matchPattern(why, m)
                       \/ \E t \in TransImports(m) \ rootPkgs : matchPattern(why, t)}

\* C3: without -f no root is the package of an output line.
C3_NoRootRendered ==
    (pc = "done" /\ ~files) => Rendered \cap rootPkgs = {}

\* lines were printed under -why although a root had importers after the build
C3_Witness ==
    /\ pc = "done"
    /\ ~files
    /\ why # <<>>
    /\ output # <<>>
    /\ \E r \in rootPkgs : Importers(built, r) # <<>>

\* C4: every importer p recorded for a key d imports d directly, or p is a root,
\* test imports are enabled and d is a test or external-test import of p; and a
\* key without importers is a root.
C4_TestImportsOfRootsOnly ==
    \A d \in DOMAIN allPkgs :
        /\ allPkgs[d] = <<>> => d \in rootPkgs
        /\ \A i \in DOMAIN allPkgs[d] :
              LET p == allPkgs[d][i]
              IN  \/ d \in Imports(p)
                  \/ /\ p \in rootPkgs
                     /\ ~noTestDeps
                     /\ d \in TestImports(p) \cup XTestImports(p)

\* the recursion went through a package that is no root and has a test import
\* the build did not find
C4_Witness ==
    /\ pc = "done"
    /\ all
    /\ ~noTestDeps
    /\ \E p \in Modules \ rootPkgs :
          /\ calls[p] > 0
          /\ (TestImports(p) \cup XTestImports(p)) \ DOMAIN built # {}

\* C5 as stated: once a resolution has failed, nothing is printed.
C5_AsStated == resolveFailed => output = <<>>

\* C6 as stated: "C" is never a key of allPkgs and never printed.
C6_AsStated == CgoPath \notin DOMAIN allPkgs /\ CgoPath \notin Rendered

\* C7 as stated: with -stdlib off after the adjustment for -why, no key of
\* allPkgs is classified as standard library.
C7_AsStated ==
    (pc # "start" /\ ~std) => \A k \in DOMAIN allPkgs : ~StdClass(k)

\* C7 amended: with -stdlib off after the adjustment for -why, a key of allPkgs
\* classified as standard library is a root's own entry and has no importers,
\* and without -f no output line is for such a path.
C7_StdlibFiltered ==
    (pc # "start" /\ ~std) =>
        /\ \A k \in DOMAIN allPkgs : StdClass(k) => k \in rootPkgs /\ allPkgs[k] = <<>>
        /\ (pc = "done" /\ ~files) => \A k \in Rendered : ~StdClass(k)

\* lines were printed under -why with -stdlib off, and a traversed package
\* imports a standard-library path
C7_Witness ==
    /\ pc = "done"
    /\ ~files
    /\ ~std
    /\ why # <<>>
    /\ output # <<>>
    /\ \E p \in DOMAIN built \cap Modules :
          calls[p] > 0 /\ \E d \in Effective(p) : StdClass(d)

\* the sequence of the elements of S in increasing order
Sorted(S) ==
    CHOOSE o \in Orders(S) : \A i \in 1..(Cardinality(S) - 1) : StrLess(o[i], o[i + 1])

\* the packages whose imports the build reads
Traversed == IF all THEN rootPkgs \cup (KeptReachable \cap Modules) ELSE rootPkgs

\* the importers of d among them, and the paths they import
ImportersOf(d) == {p \in Traversed : d \in Kept(p)}
Found == UNION {Kept(p) : p \in Traversed} \ rootPkgs

\* the packages that are marked, walking from the matching paths to importers
\* for as long as the path is a key
MarkedOf == Closure(LAMBDA p : IF p \in Found THEN ImportersOf(p) ELSE {},
                    {k \in Found : matchPattern(why, k)}, {})

Shown == IF why = <<>> THEN Found ELSE Found \cap MarkedOf

ExpectedLine(k) ==
    IF from THEN k \o <<" ">> \o Join(Sorted(ImportersOf(k)), <<" ">>) ELSE k

\* the lines the arguments, the flags and the packages on disk determine
Expected == [i \in 1..Cardinality(Shown) |-> ExpectedLine(Sorted(Shown)[i])]

\* C8: without -f the output is a function of the arguments, the flags and the
\* packages on disk alone: whatever order the maps were ranged over in, it is
\* the sorted paths, each under -from with its importers sorted and without
\* duplicates.
C8_OrderIndependent ==
    (pc = "done" /\ ~files) => output = Expected

\* under -from a line was printed for a path whose importers were recorded
\* twice, because a package was traversed twice
C8_Witness ==
    /\ pc = "done"
    /\ ~files
    /\ from
    /\ \E k \in Rendered :
          \E i, j \in DOMAIN built[k] : i # j /\ built[k][i] = built[k][j]

\* C10: the build never hangs and never recurses without end: while it runs a
\* step is possible, findImports is called from its own loop at most once per
\* path and from main once per argument, and no more calls are nested than
\* there are packages, plus one.
C10_CycleSafe ==
    pc = "build" =>
        /\ ENABLED Next
        /\ Len(stack) <= Cardinality(Modules) + 1
        /\ \A p \in DOMAIN calls : calls[p] <= (IF p \in pkgs THEN 2 ELSE 1)

\* the recursive build returned after it reached a root again through a test
\* import of the root that imports the root back
C10_Witness ==
    /\ pc = "done"
    /\ all
    /\ \E r \in rootPkgs \cap pkgs :
          /\ calls[r] = 2
          /\ \E t \in TestDepsOf(r) \ Imports(r) : r \in Imports(t)

---------------------------------------------------------------------------
(* matchPattern alone. *)

RECURSIVE Strings(_, _)
\* the strings over the characters of A of length at most n
Strings(A, n) ==
    IF n = 0 THEN {<<>>}
    ELSE LET shorter == Strings(A, n - 1)
         IN  shorter \cup {<<c>> \o t : c \in A, t \in shorter}

Alphabet == {"a", ".", "/"}

Foo == <<"f", "o", "o">>
FooDots == <<"f", "o", "o", "/", ".", ".", ".">>
FooBar == <<"f", "o", "o", "/", "b", "a", "r">>
Foobar == <<"f", "o", "o", "b", "a", "r">>
ADotsB == <<"a", ".", ".", ".", "b">>
Axyzb == <<"a", "x", "y", "z", "b">>

Patterns == Strings(Alphabet, MaxPatLen)
               \cup {FooDots, ADotsB, <<"a", "+">>, <<"a", "*">>, <<"(", "a", ")", "?">>}
Names == Strings(Alphabet, MaxNameLen)
            \cup {Foo, FooBar, Foobar, Axyzb, <<"a", "+">>, <<"a", "a">>, <<"(", "a", ")", "?">>}

InitMatch ==
    /\ why \in Patterns
    /\ name \in Names
    /\ noTestDeps = FALSE
    /\ all = FALSE
    /\ std = FALSE
    /\ from = FALSE
    /\ files = FALSE
    /\ pkgs = {}
    /\ edges = {}
    /\ pc = "match"
    /\ Idle

\* whyMatch(name)
Match ==
    /\ pc = "match"
    /\ matched' = matchPattern(why, name)
    /\ pc' = "matched"
    /\ UNCHANGED <<noTestDeps, all, std, from, why, files, pkgs, edges, rootPkgs,
                   allPkgs, pending, stack, output, built, calls, resolveFailed, name>>

SpecMatch == InitMatch /\ [][Match]_vars

Dots == <<".", ".", ".">>
SlashDots == <<"/", ".", ".", ".">>

RECURSIVE Tokens(_)
\* a pattern as its tokens, leftmost ... first: <<>> for ..., <<c>> for c
Tokens(p) ==
    IF p = <<>> THEN <<>>
    ELSE IF HasPrefixAt(p, 0, Dots) THEN << <<>> >> \o Tokens(SubSeq(p, 4, Len(p)))
    ELSE << <<Head(p)>> >> \o Tokens(Tail(p))

RECURSIVE Glob(_, _)
\* s is the tokens with every ... replaced by some string
Glob(toks, s) ==
    IF toks = <<>> THEN s = <<>>
    ELSE IF Head(toks) = <<>>
    THEN \E k \in 0..Len(s) : Glob(Tail(toks), SubSeq(s, k + 1, Len(s)))
    ELSE s # <<>> /\ <<Head(s)>> = Head(toks) /\ Glob(Tail(toks), Tail(s))

GlobMatches(p, s) ==
    \/ Glob(Tokens(p), s)
    \/ HasSuffix(p, SlashDots) /\ Glob(Tokens(SubSeq(p, 1, Len(p) - 4)), s)

\* C9: matchPattern(p)(s) holds exactly if s is p with every ... replaced by
\* some string and every other character kept, or p ends in /... and s is so
\* for p without that /...; foo/... matches foo and foo/bar and not foobar, and
\* a...b matches axyzb.
C9_Pattern ==
    pc = "matched" =>
        /\ matched = GlobMatches(why, name)
        /\ (why = FooDots /\ name \in {Foo, FooBar}) => matched
        /\ (why = FooDots /\ name = Foobar) => ~matched
        /\ (why = ADotsB /\ name = Axyzb) => matched

\* a pattern with a ... inside and /... at its end matched the name without
\* the /... part
C9_Witness ==
    /\ pc = "matched"
    /\ matched
    /\ HasSuffix(why, SlashDots)
    /\ Contains(SubSeq(why, 1, Len(why) - 4), Dots)
    /\ name # <<>>
    /\ ~Contains(name, <<"/">>)

====
